---- MODULE Spec2Model ----
(***************************************************************************)
(* Model of AudioLEDAnalyzer (src/analyzer/audio_analyzer.py): the object  *)
(* that holds a loaded mono sample buffer and turns it into a sequence of  *)
(* 8-bit LED brightness values.                                            *)
(*                                                                         *)
(* Units.  A sample is an integer amplitude, 1 = full scale.  An energy is *)
(* an integer number of centi-dB.  noise_floor and max_energy are kept     *)
(* multiplied by PctDenom (100), so that the linear interpolation of       *)
(* np.percentile is exact in integers; an energy e is compared with them   *)
(* as PctDenom * e.                                                        *)
(***************************************************************************)
EXTENDS Integers, Sequences, FiniteSets, TLC

\* ------------------------------------------------------------ bounds
MaxSamples == 5
MaxFrames == 8
MapLen == 3
SmoothLen == 5

\* ------------------------------------------------------------ inputs
Amps == {0, 1}
SampleRates == {10, 20}
WindowMsSet == {100, 50, -100}
NumpyEmptyPercentile == {"IndexError", "nan"}
CalibLevels == {-10000, -301, 0}
DbLevels == {-10000, -6000, -5000, -4000, -3000, -2000, -1000}
RawLevels == {0, 10, 50, 100, 200, 255}
WindowSizes == {1, 3, 5}

\* ------------------------------------------------------------ constants
PctDenom == 100
SilenceDb == -10000
FloorPct == 15
CeilPct == 85
MaxBrightness == 255
DefaultWindowSize == 3
MsPerSecond == 1000
\* the line of calculate_brightness at which a call ended
LineNoData == 45
LineRange == 52
LinePercentile == 70
LineActiveTime == 97
LineReturn == 99
LineNormalized == 90
LineSmoothed == 93

VARIABLES
    audio_data,         \* self.audio_data: {} (None) or {samples}
    sample_rate,        \* self.sample_rate: {} (None) or {rate}
    duration,           \* self.duration: {} (None) or {<<len, rate>>}, the quotient len / rate
    load_ret,           \* what the last load_audio call returned
    window_ms,          \* the argument of the last calculate_brightness call
    window_samples,     \* its locals, as they stood when the call ended
    frames,             \* the [start, stop) index pairs of the windows it processed
    energy_db,
    noise_floor,
    max_energy,
    div_spans,          \* the divisors (max_energy - noise_floor) line 86 divided by
    raw_levels,         \* brightness_levels before line 93
    window_size,        \* the window_size of _smooth_brightness
    brightness_levels,  \* brightness_levels after line 93
    avg_brightness,
    outcome,            \* "idle", "returned" or the exception the call raised
    end_line,           \* the line at which the call ended
    memo                \* window_ms -> the history of the calls with it since the last load

obj == <<audio_data, sample_rate, duration>>
locals == <<window_ms, window_samples, frames, energy_db, noise_floor, max_energy,
            div_spans, raw_levels, window_size, brightness_levels, avg_brightness,
            outcome, end_line>>
vars == <<obj, load_ret, locals, memo>>

\* ------------------------------------------------------------ helpers
None == {}
Some(x) == {x}
The(o) == CHOOSE x \in o : TRUE

Min(a, b) == IF a <= b THEN a ELSE b
Max(a, b) == IF a >= b THEN a ELSE b

\* Python's int() of the quotient n / d, d > 0: truncation toward zero
IntTrunc(n, d) == IF n >= 0 THEN n \div d ELSE -((-n) \div d)

RECURSIVE SumSeq(_)
SumSeq(s) == IF s = <<>> THEN 0 ELSE Head(s) + SumSeq(Tail(s))

SeqsUpTo(S, n) == UNION {[1..k -> S] : k \in 0..n}

\* ------------------------------------------------------------ lines 52-65: windowing and energy
\* 10 * log10(n) in centi-dB, n = 1..12, additive over products so that equal
\* mean squares give equal energies
TenLog10Table == <<0, 301, 477, 602, 699, 778, 845, 903, 954, 1000, 1041, 1079>>
TenLog10(n) == TenLog10Table[n]

\* range(0, n, step), step /= 0, as the sequence of its values
RECURSIVE RangeFrom(_, _, _)
RangeFrom(i, n, step) ==
    IF step > 0 /\ i < n THEN <<i>> \o RangeFrom(i + step, n, step) ELSE <<>>

\* the slice audio[i : i + L] as the index pair [start, stop)
Slice(i, L, n) == <<Min(i, n), Max(Min(i, n), Min(i + L, n))>>

\* the loop of lines 52-65: the windows processed, up to the first empty one
RECURSIVE WindowsOf(_, _, _)
WindowsOf(starts, L, n) ==
    IF starts = <<>> THEN <<>>
    ELSE LET w == Slice(Head(starts), L, n)
         IN  IF w[2] - w[1] = 0 THEN <<>>
             ELSE <<w>> \o WindowsOf(Tail(starts), L, n)

\* line 55 with len(window) < window_samples for len(window) == 0
FramesWholeOnly(n, L) ==
    IF L > 0 THEN [j \in 1..(n \div L) |-> <<(j - 1) * L, j * L>>] ELSE <<>>

Frames(n, L) == WindowsOf(RangeFrom(0, n, L), L, n)

SamplesOf(audio, w) == SubSeq(audio, w[1] + 1, w[2])

\* lines 58-63: 20 * log10(sqrt(mean(window ** 2))), or -100 when the rms is 0
FrameEnergy(window) ==
    LET sumsq == SumSeq([k \in 1..Len(window) |-> window[k] * window[k]])
    IN  IF sumsq > 0 THEN TenLog10(sumsq) - TenLog10(Len(window)) ELSE SilenceDb

EnergyProfile(audio, fr) == [j \in 1..Len(fr) |-> FrameEnergy(SamplesOf(audio, fr[j]))]

\* ------------------------------------------------------------ lines 70-71: np.percentile
RECURSIVE Insert(_, _)
Insert(x, s) ==
    IF s = <<>> THEN <<x>>
    ELSE IF x <= Head(s) THEN <<x>> \o s
    ELSE <<Head(s)>> \o Insert(x, Tail(s))

RECURSIVE Sorted(_)
Sorted(s) == IF s = <<>> THEN <<>> ELSE Insert(Head(s), Sorted(Tail(s)))

\* PctDenom * np.percentile(arr, p), arr non-empty: linear interpolation between
\* the order statistics around the rank p / 100 * (n - 1)
Percentile(arr, p) ==
    LET n == Len(arr)
        srt == Sorted(arr)
        pos == p * (n - 1)
        lo == pos \div PctDenom
        rem == pos % PctDenom
        a == srt[lo + 1]
        b == srt[Min(lo + 2, n)]
    IN  PctDenom * a + rem * (b - a)

\* ------------------------------------------------------------ lines 80-90: normalization
Clamp(b) == Max(0, Min(MaxBrightness, b))

\* line 81 with < for <=
BranchStrictFloor(e, nf, ce) ==
    IF PctDenom * e < nf THEN "floor"
    ELSE IF PctDenom * e >= ce THEN "ceiling"
    ELSE "scaled"

\* the branch of lines 81-87 an energy takes
Branch(e, nf, ce) ==
    IF PctDenom * e <= nf THEN "floor"
    ELSE IF PctDenom * e >= ce THEN "ceiling"
    ELSE "scaled"

\* line 87 with round() for int()
BrightnessRounded(e, nf, ce) ==
    LET br == Branch(e, nf, ce)
        num == (PctDenom * e - nf) * MaxBrightness
        den == ce - nf
    IN  Clamp(IF br = "floor" THEN 0
              ELSE IF br = "ceiling" THEN MaxBrightness
              ELSE (2 * num + den) \div (2 * den))

\* line 86 with the distance to max_energy for the distance to noise_floor
BrightnessInverted(e, nf, ce) ==
    LET br == Branch(e, nf, ce)
    IN  Clamp(IF br = "floor" THEN 0
              ELSE IF br = "ceiling" THEN MaxBrightness
              ELSE IntTrunc((ce - PctDenom * e) * MaxBrightness, ce - nf))

Brightness(e, nf, ce) ==
    LET br == Branch(e, nf, ce)
    IN  Clamp(IF br = "floor" THEN 0
              ELSE IF br = "ceiling" THEN MaxBrightness
              ELSE IntTrunc((PctDenom * e - nf) * MaxBrightness, ce - nf))

Normalize(energies, nf, ce) ==
    [j \in 1..Len(energies) |-> Brightness(energies[j], nf, ce)]

\* the divisors line 86 divides by
Divisors(energies, nf, ce) ==
    {ce - nf : j \in {k \in 1..Len(energies) : Branch(energies[k], nf, ce) = "scaled"}}

\* ------------------------------------------------------------ lines 101-112: _smooth_brightness
\* line 110 with np.sum for np.mean
SmoothAtSum(levels, i, k) ==
    LET start == Max(0, i - k \div 2)
        end == Min(Len(levels), i + k \div 2 + 1)
    IN  SumSeq(SubSeq(levels, start + 1, end))

SmoothAt(levels, i, k) ==
    LET start == Max(0, i - k \div 2)
        end == Min(Len(levels), i + k \div 2 + 1)
        window_values == SubSeq(levels, start + 1, end)
    IN  IntTrunc(SumSeq(window_values), Len(window_values))

\* line 109 reading smoothed, the list being written, for brightness_levels
RECURSIVE SmoothInPlaceFrom(_, _, _)
SmoothInPlaceFrom(smoothed, i, k) ==
    IF i >= Len(smoothed) THEN smoothed
    ELSE LET start == Max(0, i - k \div 2)
             end == Min(Len(smoothed), i + k \div 2 + 1)
             window_values == SubSeq(smoothed, start + 1, end)
         IN  SmoothInPlaceFrom(
                 [smoothed EXCEPT ![i + 1] = IntTrunc(SumSeq(window_values), Len(window_values))],
                 i + 1, k)

SmoothInPlace(levels, k) == SmoothInPlaceFrom(levels, 0, k)

_smooth_brightness(levels, k) == [j \in 1..Len(levels) |-> SmoothAt(levels, j - 1, k)]

\* ------------------------------------------------------------ lines 95-97: the statistics
\* floating-point results: a value, or nan
Nan == [nan |-> TRUE, val |-> 0]
Float(v) == [nan |-> FALSE, val |-> v]
NanQuotient == [nan |-> TRUE, num |-> 0, den |-> 0]

NonZero(levels) == {j \in 1..Len(levels) : levels[j] > 0}

\* np.mean of the values > 0: the quotient num / den, or nan for an empty list
AvgBrightness(levels) ==
    LET nz == NonZero(levels)
    IN  IF nz = {} THEN NanQuotient
        ELSE [nan |-> FALSE,
              num |-> SumSeq([j \in 1..Len(levels) |-> IF levels[j] > 0 THEN levels[j] ELSE 0]),
              den |-> Cardinality(nz)]


\* ------------------------------------------------------------ lines 41-99: calculate_brightness
\* The locals of one call as they stand when it ends.
Unset == [window_samples |-> None, frames |-> <<>>, energy_db |-> <<>>,
          noise_floor |-> None, max_energy |-> None, div_spans |-> {},
          raw_levels |-> <<>>, brightness_levels |-> <<>>, avg_brightness |-> None]

\* no call yet
Idle == [outcome |-> "idle", end_line |-> 0, loc |-> Unset]

\* lines 67-99 on a non-empty energy profile: calibration, normalization,
\* smoothing, statistics, return
Calibrated(loc) ==
    LET en == loc.energy_db
        nf == Percentile(en, FloorPct)
        ce == Percentile(en, CeilPct)
        raw == Normalize(en, nf, ce)
        sm == _smooth_brightness(raw, DefaultWindowSize)
    IN  [outcome |-> "returned", end_line |-> LineReturn,
         loc |-> [loc EXCEPT !.noise_floor = Some(Float(nf)),
                             !.max_energy = Some(Float(ce)),
                             !.div_spans = Divisors(en, nf, ce),
                             !.raw_levels = raw,
                             !.brightness_levels = sm,
                             !.avg_brightness = Some(AvgBrightness(sm))]]

\* lines 67-99 on an empty energy profile. np is what np.percentile does with an
\* empty array: it raises IndexError, or (older numpy) warns and returns nan, and
\* then line 97 divides by len([]).
CalibratedEmpty(loc, np) ==
    IF np = "IndexError"
    THEN [outcome |-> "IndexError", end_line |-> LinePercentile, loc |-> loc]
    ELSE [outcome |-> "ZeroDivisionError", end_line |-> LineActiveTime,
          loc |-> [loc EXCEPT !.noise_floor = Some(Nan), !.max_energy = Some(Nan),
                              !.avg_brightness = Some(NanQuotient)]]

\* line 49
WindowSamples(rate, w) == IntTrunc(rate * w, MsPerSecond)

Run(audio, rate, w, np) ==
    LET L == WindowSamples(rate, w)
        fr == Frames(Len(audio), L)
        windowed == [Unset EXCEPT !.window_samples = Some(L), !.frames = fr,
                                  !.energy_db = EnergyProfile(audio, fr)]
    IN  IF L = 0 THEN
            \* range() arg 3 must not be zero
            [outcome |-> "ValueError", end_line |-> LineRange,
             loc |-> [Unset EXCEPT !.window_samples = Some(L)]]
        ELSE IF windowed.energy_db = <<>> THEN CalibratedEmpty(windowed, np)
        ELSE Calibrated(windowed)

\* what a call that returns hands to its caller: [] at line 45, the pair at line 99
Returned(r) ==
    IF r.outcome /= "returned" THEN None
    ELSE IF r.end_line = LineNoData THEN Some(<<>>)
    ELSE Some(<<r.loc.brightness_levels, r.loc.energy_db>>)

\* the history of one window_ms since the last load: what the first call that
\* returned handed back, and whether a later call with it returned as well
Remembered(m, ret) ==
    IF ret = None THEN m
    ELSE IF m = None THEN Some([first |-> The(ret), repeated |-> FALSE])
    ELSE Some([The(m) EXCEPT !.repeated = TRUE])

\* what calculate_brightness leaves in the object's attributes
\* the buffer released once it has been analysed
AttrsCleared(attrs) == <<None, attrs[2], attrs[3]>>

AttrsAfterRun(attrs) == attrs

SetLocals(w, k, r) ==
    /\ window_ms' = w
    /\ window_samples' = r.loc.window_samples
    /\ frames' = r.loc.frames
    /\ energy_db' = r.loc.energy_db
    /\ noise_floor' = r.loc.noise_floor
    /\ max_energy' = r.loc.max_energy
    /\ div_spans' = r.loc.div_spans
    /\ raw_levels' = r.loc.raw_levels
    /\ window_size' = k
    /\ brightness_levels' = r.loc.brightness_levels
    /\ avg_brightness' = r.loc.avg_brightness
    /\ outcome' = r.outcome
    /\ end_line' = r.end_line

calculate_brightness(w, np) ==
    /\ LET r == IF audio_data = None
                THEN [outcome |-> "returned", end_line |-> LineNoData, loc |-> Unset]
                ELSE Run(The(audio_data), The(sample_rate), w, np)
       IN  /\ SetLocals(Some(w), DefaultWindowSize, r)
           /\ memo' = [memo EXCEPT ![w] = Remembered(memo[w], Returned(r))]
    /\ audio_data' = AttrsAfterRun(obj)[1]
    /\ sample_rate' = AttrsAfterRun(obj)[2]
    /\ duration' = AttrsAfterRun(obj)[3]
    /\ UNCHANGED load_ret

\* ------------------------------------------------------------ lines 19-39: load_audio
\* librosa.load returns (samples, rate): both attributes and the duration are set.
\* The record of the last calculate_brightness call belongs to the audio it ran on
\* and is dropped with it.
LoadOk(samples, rate) ==
    /\ audio_data' = Some(samples)
    /\ sample_rate' = Some(rate)
    /\ duration' = Some(<<Len(samples), rate>>)
    /\ load_ret' = Some(TRUE)
    /\ SetLocals(None, DefaultWindowSize, Idle)
    /\ memo' = [w \in WindowMsSet |-> None]

\* librosa.load raises before line 24 assigns: only the return value is new
LoadFail ==
    /\ load_ret' = Some(FALSE)
    /\ UNCHANGED <<obj, locals, memo>>

load_audio ==
    \/ \E samples \in SeqsUpTo(Amps, MaxSamples), rate \in SampleRates : LoadOk(samples, rate)
    \/ LoadFail

Calc == \E w \in WindowMsSet, np \in NumpyEmptyPercentile : calculate_brightness(w, np)

NoAttrs == audio_data = None /\ sample_rate = None /\ duration = None /\ load_ret = None

NoCall(k, loc) ==
    /\ window_ms = None
    /\ window_samples = loc.window_samples
    /\ frames = loc.frames
    /\ energy_db = loc.energy_db
    /\ noise_floor = loc.noise_floor
    /\ max_energy = loc.max_energy
    /\ div_spans = loc.div_spans
    /\ raw_levels = loc.raw_levels
    /\ window_size = k
    /\ brightness_levels = loc.brightness_levels
    /\ avg_brightness = loc.avg_brightness
    /\ outcome = "idle"
    /\ end_line = 0
    /\ memo = [w \in WindowMsSet |-> None]

Init == NoAttrs /\ NoCall(DefaultWindowSize, Unset)

Next == load_audio \/ Calc

Spec == Init /\ [][Next]_vars

\* ------------------------------------------------------------ lines 67-99 alone
\* Calibration, normalization, smoothing and statistics as a function of the
\* energy profile.
InitCalib ==
    /\ NoAttrs
    /\ \E en \in SeqsUpTo(CalibLevels, MaxFrames) \ {<<>>} :
           NoCall(DefaultWindowSize, [Unset EXCEPT !.energy_db = en])

CalibStep ==
    /\ outcome = "idle"
    /\ SetLocals(None, DefaultWindowSize, Calibrated([Unset EXCEPT !.energy_db = energy_db]))
    /\ UNCHANGED <<obj, load_ret, memo>>

SpecCalib == InitCalib /\ [][CalibStep]_vars

\* ------------------------------------------------------------ lines 80-90 alone
\* The energy-to-brightness mapping as a function of the energies and of a
\* range with noise_floor <= max_energy, as percentiles 15 and 85 always are.
InitMap ==
    /\ NoAttrs
    /\ \E en \in [1..MapLen -> DbLevels], nf \in DbLevels, ce \in DbLevels :
           /\ nf <= ce
           /\ NoCall(DefaultWindowSize,
                     [Unset EXCEPT !.energy_db = en,
                                   !.noise_floor = Some(Float(PctDenom * nf)),
                                   !.max_energy = Some(Float(PctDenom * ce))])

MapStep ==
    /\ outcome = "idle"
    /\ LET nf == The(noise_floor).val
           ce == The(max_energy).val
       IN  /\ raw_levels' = Normalize(energy_db, nf, ce)
           /\ div_spans' = Divisors(energy_db, nf, ce)
    /\ outcome' = "normalized"
    /\ end_line' = LineNormalized
    /\ UNCHANGED <<obj, load_ret, memo, window_ms, window_samples, frames, energy_db,
                   noise_floor, max_energy, window_size, brightness_levels, avg_brightness>>

SpecMap == InitMap /\ [][MapStep]_vars

\* ------------------------------------------------------------ lines 101-112 alone
InitSmooth ==
    /\ NoAttrs
    /\ \E raw \in SeqsUpTo(RawLevels, SmoothLen), k \in WindowSizes :
           NoCall(k, [Unset EXCEPT !.raw_levels = raw])

SmoothStep ==
    /\ outcome = "idle"
    /\ brightness_levels' = _smooth_brightness(raw_levels, window_size)
    /\ outcome' = "smoothed"
    /\ end_line' = LineSmoothed
    /\ UNCHANGED <<obj, load_ret, memo, window_ms, window_samples, frames, energy_db,
                   noise_floor, max_energy, div_spans, raw_levels, window_size,
                   avg_brightness>>

SpecSmooth == InitSmooth /\ [][SmoothStep]_vars

\* ============================================================ properties
InRange(levels) == \A j \in 1..Len(levels) : levels[j] \in 0..MaxBrightness

CallReturned == outcome = "returned" /\ end_line = LineReturn

\* the bounds of the last call, as PctDenom times the dB value
Floor == The(noise_floor).val
Ceiling == The(max_energy).val
HasRange == noise_floor /= None /\ max_energy /= None
                /\ ~The(noise_floor).nan /\ ~The(max_energy).nan
Degenerate == HasRange /\ Ceiling <= Floor

\* C1: every value of the brightness profile, after normalization and after
\* smoothing, is an integer in [0, 255]
BrightnessInRange == InRange(raw_levels) /\ InRange(brightness_levels)

\* a call on a non-empty buffer returned a profile that has a value of 255 before
\* smoothing and a value strictly between 0 and 255 after it
BrightnessInRangeWitness ==
    /\ CallReturned
    /\ \E j \in 1..Len(raw_levels) : raw_levels[j] = MaxBrightness
    /\ \E j \in 1..Len(brightness_levels) :
           brightness_levels[j] > 0 /\ brightness_levels[j] < MaxBrightness

\* C2 as stated: whenever the calibrated range is degenerate, every brightness
\* value is 0 and line 86 never divides
DegenerateAllZero ==
    (CallReturned /\ Degenerate) =>
        /\ div_spans = {}
        /\ \A j \in 1..Len(raw_levels) : raw_levels[j] = 0
        /\ \A j \in 1..Len(brightness_levels) : brightness_levels[j] = 0

\* C2 as amended: whenever the calibrated range is degenerate, line 86 never
\* divides, a frame whose energy is at most the noise floor gets 0 and a frame
\* above it gets 255 before smoothing, and when all energies are equal every
\* brightness value is 0
DegenerateNoDivision ==
    (CallReturned /\ Degenerate) =>
        /\ div_spans = {}
        /\ \A j \in 1..Len(energy_db) :
               /\ PctDenom * energy_db[j] <= Floor => raw_levels[j] = 0
               /\ PctDenom * energy_db[j] > Floor => raw_levels[j] = MaxBrightness
        /\ (\A i, j \in 1..Len(energy_db) : energy_db[i] = energy_db[j]) =>
               \A j \in 1..Len(brightness_levels) :
                   raw_levels[j] = 0 /\ brightness_levels[j] = 0

\* a degenerate range with a frame above the noise floor next to frames at it
DegenerateWitness ==
    /\ CallReturned /\ Degenerate
    /\ \E i, j \in 1..Len(energy_db) :
           /\ PctDenom * energy_db[i] > Floor /\ raw_levels[i] = MaxBrightness
           /\ PctDenom * energy_db[j] = Floor /\ raw_levels[j] = 0

\* the frames that take neither the floor nor the ceiling branch
Between(j) == Floor < PctDenom * energy_db[j] /\ PctDenom * energy_db[j] < Ceiling
Normalized == outcome = "normalized" /\ Len(raw_levels) = Len(energy_db)
\* the example of the specification: energy -40 dB, noise floor -60 dB, ceiling -20 dB
IsExample(j) == energy_db[j] = -4000 /\ Floor = PctDenom * (-6000) /\ Ceiling = PctDenom * (-2000)

\* C3 as stated: strictly between the bounds the unsmoothed brightness is
\* 255 * (energy - noise_floor) / (ceiling - noise_floor) rounded to the nearest
\* integer and clamped; energy -40 with bounds -60 and -20 gives 128
ScaledRoundsToNearest ==
    Normalized =>
        \A j \in 1..Len(energy_db) :
            /\ Between(j) =>
                   LET num == MaxBrightness * (PctDenom * energy_db[j] - Floor)
                       den == Ceiling - Floor
                   IN  raw_levels[j] = Max(0, Min(MaxBrightness, (2 * num + den) \div (2 * den)))
            /\ IsExample(j) => raw_levels[j] = 128

\* C3 as amended: strictly between the bounds the unsmoothed brightness is
\* 255 * (energy - noise_floor) / (ceiling - noise_floor) truncated toward zero
\* and clamped to [0, 255]; energy -40 with bounds -60 and -20 gives 127
ScaledTruncates ==
    Normalized =>
        \A j \in 1..Len(energy_db) :
            /\ Between(j) =>
                   LET num == MaxBrightness * (PctDenom * energy_db[j] - Floor)
                       den == Ceiling - Floor
                   IN  /\ raw_levels[j] \in 0..MaxBrightness
                       /\ raw_levels[j] * den <= num
                       /\ num < (raw_levels[j] + 1) * den
            /\ IsExample(j) => raw_levels[j] = 127

\* the example has been normalized
ScaledWitness == Normalized /\ \E j \in 1..Len(energy_db) : IsExample(j) /\ raw_levels[j] = 127

\* C5: with ceiling > noise_floor the mapping before smoothing is monotonically
\* non-decreasing in the energy, across the three branches
MappingMonotone ==
    (Normalized /\ Ceiling > Floor) =>
        \A i, j \in 1..Len(energy_db) :
            energy_db[i] <= energy_db[j] => raw_levels[i] <= raw_levels[j]

\* three energies, one per branch, mapped to strictly increasing values
MappingMonotoneWitness ==
    /\ Normalized /\ Ceiling > Floor
    /\ \E i, j, k \in 1..Len(energy_db) :
           /\ PctDenom * energy_db[i] <= Floor /\ Between(j) /\ PctDenom * energy_db[k] >= Ceiling
           /\ raw_levels[i] = 0 /\ raw_levels[i] < raw_levels[j] /\ raw_levels[j] < raw_levels[k]

\* the sum of levels[lo + 1 .. hi], index by index
RECURSIVE SumOver(_, _, _)
SumOver(levels, lo, hi) == IF lo >= hi THEN 0 ELSE levels[hi] + SumOver(levels, lo, hi - 1)

Smoothed == outcome = "smoothed" /\ Len(brightness_levels) = Len(raw_levels)

\* every smoothed value is the mean, truncated toward zero, of the unsmoothed
\* values at the indices [max(0, i - k div 2), min(n, i + k div 2 + 1))
TruncatedMeans ==
    \A i \in 0..(Len(raw_levels) - 1) :
        LET lo == Max(0, i - window_size \div 2)
            hi == Min(Len(raw_levels), i + window_size \div 2 + 1)
            total == SumOver(raw_levels, lo, hi)
            b == brightness_levels[i + 1]
        IN  b * (hi - lo) <= total /\ total < (b + 1) * (hi - lo)

\* the example of the specification
IsSmoothExample == raw_levels = <<0, 100, 200, 50, 10>> /\ window_size = DefaultWindowSize

\* C4 as stated: truncated means over the shortened windows of the unsmoothed
\* values, and [0, 100, 200, 50, 10] with k = 3 gives 50 at index 0, 117 at
\* index 2 and 30 at index 4
SmoothingAsStated ==
    Smoothed =>
        /\ TruncatedMeans
        /\ IsSmoothExample =>
               /\ brightness_levels[1] = 50
               /\ brightness_levels[3] = 117
               /\ brightness_levels[5] = 30

\* C4 as amended: truncated means over the shortened windows of the unsmoothed
\* values, and [0, 100, 200, 50, 10] with k = 3 gives 50 at index 0, 116 at
\* index 2 (350 / 3 truncated) and 30 at index 4
SmoothingTruncatedMeans ==
    Smoothed =>
        /\ TruncatedMeans
        /\ IsSmoothExample =>
               /\ brightness_levels[1] = 50
               /\ brightness_levels[3] = 116
               /\ brightness_levels[5] = 30

\* the example has been smoothed
SmoothingWitness == Smoothed /\ IsSmoothExample /\ brightness_levels = <<50, 100, 116, 86, 30>>

\* the buffer and the frame length of the last call
Buffer == The(audio_data)
FrameLen == The(window_samples)
WindowingRan == window_ms /= None /\ audio_data /= None /\ window_samples /= None

\* C6: a buffer of N >= 1 samples and a frame length L >= 1 give exactly
\* ceil(N / L) frames, frame j covering the samples [j*L, min(N, (j+1)*L)), the
\* partial last one included, and an energy and a brightness profile of that length
FramesCoverBuffer ==
    (WindowingRan /\ Len(Buffer) >= 1 /\ FrameLen >= 1) =>
        LET N == Len(Buffer)
            L == FrameLen
            count == (N + L - 1) \div L
        IN  /\ CallReturned
            /\ Len(frames) = count
            /\ \A j \in 0..(count - 1) :
                   /\ frames[j + 1] = <<j * L, Min(N, (j + 1) * L)>>
                   /\ frames[j + 1][2] > frames[j + 1][1]
            /\ Len(energy_db) = count
            /\ Len(raw_levels) = count
            /\ Len(brightness_levels) = count

\* the buffer is not a multiple of the frame length: the last frame is partial
FramesCoverBufferWitness ==
    /\ WindowingRan /\ CallReturned
    /\ FrameLen = 2 /\ Len(Buffer) = 5
    /\ frames = <<(<<0, 2>>), (<<2, 4>>), (<<4, 5>>)>>

\* C7: a frame length below 1 ends the call in a failure before any frame is
\* processed and before calibration, and nothing is returned
InvalidWindowFailsFirst ==
    (WindowingRan /\ FrameLen < 1) =>
        /\ outcome \notin {"idle", "returned"}
        /\ frames = <<>>
        /\ end_line < LinePercentile

\* C8: zero frames from a valid frame length end the call in a failure before
\* calibration is attempted on the empty energy profile
EmptyProfileFailsFirst ==
    (WindowingRan /\ FrameLen >= 1 /\ frames = <<>>) =>
        /\ outcome \notin {"idle", "returned"}
        /\ end_line < LinePercentile

\* C9: a returned profile with no value > 0 has an average that is not nan
NoActiveSignalIsNotNan ==
    (CallReturned /\ NonZero(brightness_levels) = {}) =>
        /\ avg_brightness /= None
        /\ ~The(avg_brightness).nan

\* what the last call returned
LastReturn ==
    IF end_line = LineNoData THEN <<>> ELSE <<brightness_levels, energy_db>>

IsCalc == \E w \in WindowMsSet, np \in NumpyEmptyPercentile : calculate_brightness(w, np)

\* C10: calculate_brightness leaves audio_data, sample_rate and duration as they
\* are, and a call that returns hands back what the first call with the same
\* window_ms since the last successful load handed back
PureCalls ==
    [][IsCalc =>
         /\ audio_data' = audio_data
         /\ sample_rate' = sample_rate
         /\ duration' = duration
         /\ \A w \in WindowMsSet :
                (window_ms' = Some(w) /\ outcome' = "returned" /\ memo[w] /= None) =>
                    The(memo[w]).first = LastReturn']_vars

\* a second call with the same window_ms returned after a failed load_audio
PureCallsWitness ==
    /\ CallReturned
    /\ load_ret = Some(FALSE)
    /\ \E w \in WindowMsSet :
           /\ window_ms = Some(w)
           /\ memo[w] /= None
           /\ The(memo[w]).repeated
           /\ The(memo[w]).first = LastReturn
    /\ \E j \in 1..Len(brightness_levels) : brightness_levels[j] > 0

====
